---- MODULE Spec2Model ----
(***************************************************************************)
(* Model of the Yatzy value-function code: the feature encoders and the    *)
(* two decision procedures of models.py, and the game driver of            *)
(* training_game.py.                                                       *)
(*                                                                         *)
(* Python lists and numpy arrays are functions over 0..n-1, so that the    *)
(* indices of the model are the indices of the source.                     *)
(***************************************************************************)
EXTENDS Integers, Sequences, FiniteSets, TLC

VARIABLES
    \* DiceThrowModel.decide_dice_throw
    dpc, dice, predictor, i, max_value, best_move, predict_calls, die_to_throw,
    \* ScoreLogModel.decide_score_logging
    spc, possible_moves, sl_predictor, sl_next, sl_max_value, sl_best_move,
    sl_predict_calls, sl_result,
    \* DiceThrowModel.predict and ScoreLogModel.predict
    epc, call, fed, fed_mask, inferences,
    \* TrainingGame.playN and TrainingGame.play
    gpc, N, current_play, round, throw_number, history, decisions, trains,
    total_score, game_scores, average_score, high_score

dvars == <<dpc, dice, predictor, i, max_value, best_move, predict_calls, die_to_throw>>

svars == <<spc, possible_moves, sl_predictor, sl_next, sl_max_value, sl_best_move,
           sl_predict_calls, sl_result>>

evars == <<epc, call, fed, fed_mask, inferences>>

gvars == <<gpc, N, current_play, round, throw_number, history, decisions, trains,
           total_score, game_scores, average_score, high_score>>

vars == <<dvars, svars, evars, gvars>>

-----------------------------------------------------------------------------
(* Bounds of the model *)

\* a predictor differs from its base value on at most MaxHot candidate masks
MaxHot == 1
\* largest predicted value
MaxVal == 2
\* longest list of possible moves
MaxMoves == 3
\* largest field index and largest score of a possible move
MaxMoveField == 2
MaxMoveScore == 1
\* how far below and above their range the die values, throw numbers and
\* field indexes handed to predict go
BelowRange == 1
AboveRange == 1
\* games of a playN call whose every round is followed
MaxGames == 2
\* games of a playN call followed game by game
LongRun == 101
\* largest total score of a game, and the number of games that score at all
MaxScore == 2
MaxScoring == 1

-----------------------------------------------------------------------------
(* Program constants *)

\* number of dice of a hand: zfill(5), best_move [0, 1, 2, 3, 4]
NumDice == 5
\* number of candidate masks: range(32)
NumCandidates == 32

Positions == 0..(NumDice - 1)
\* faces of a die: to_categorical(6, dice - 1)
NumFaces == 6
\* throws of a round: to_categorical(3, throw_number)
NumThrows == 3
\* fields of the score board: to_categorical(15, field_index)
NumFields == 15
\* inputs of the dice model and of the score model: super().__init__(48, 1), (60, 1)
DiceNumInputs == 48
ScoreNumInputs == 60
\* normalize_score_fields
max_scores == <<5, 10, 15, 20, 25, 30, 12, 22, 18, 24, 15, 20, 28, 30, 50>>
\* rounds of a game: range(1, 16)
LastRound == 15
\* games of the running average: game_scores[len(game_scores) - 100:]
Window == 100

RECURSIVE Pow2(_)
Pow2(n) == IF n = 0 THEN 1 ELSE 2 * Pow2(n - 1)

-----------------------------------------------------------------------------
(* numpy.ma objects *)

\* the singleton numpy.ma.masked
masked == [type |-> "MaskedConstant", v |-> 0]

\* a number held by an array
Int_(n) == [type |-> "int", v |-> n]

\* an element of a mask array is a numpy bool_
Bool_(b) == [type |-> "bool_", v |-> IF b THEN 1 ELSE 0]

\* Python's "a is not b" against the singleton: object identity, not value
IsNot(a, b) == a.type # b.type

\* ma.masked_array(data, mask=mask): the data is kept under the mask
masked_array(data, mask) == [data |-> data, mask |-> mask]

\* list(map(int, bin(i)[2:].zfill(5))): the 5 binary digits of i, most
\* significant first
MaskOfReversed(n) == [p \in Positions |-> (n \div Pow2(p)) % 2 = 1]
MaskOf(n) == [p \in Positions |-> (n \div Pow2(NumDice - 1 - p)) % 2 = 1]

NoMask == [p \in Positions |-> FALSE]

-----------------------------------------------------------------------------
(* DiceThrowModel.decide_dice_throw *)

PopCount(n) == Cardinality({p \in Positions : MaskOf(n)[p]})

RECURSIVE SmallSubsets(_)
SmallSubsets(n) ==
    IF n = 0 THEN {{}}
    ELSE LET prev == SmallSubsets(n - 1)
         IN  prev \cup {S \cup {m} : S \in prev, m \in 0..(NumCandidates - 1)}

\* the predictors: a fixed function of the candidate mask
Predictors ==
    {[m \in 0..(NumCandidates - 1) |-> PopCount(m)]}
    \cup UNION {UNION {{[m \in 0..(NumCandidates - 1) |-> IF m \in S THEN h[m] ELSE b] :
                          h \in [S -> 1..MaxVal]} : S \in SmallSubsets(MaxHot)} :
                b \in (-1)..1}

SampleHands == {[p \in Positions |-> p + 1], [p \in Positions |-> 6]}

IdleDice ==
    /\ dpc = "idle"
    /\ dice = [p \in Positions |-> 1]
    /\ predictor = [m \in 0..(NumCandidates - 1) |-> 0]
    /\ i = 0
    /\ max_value = 0
    /\ best_move = masked_array([p \in Positions |-> p], NoMask)
    /\ predict_calls = <<>>
    /\ die_to_throw = <<>>

InitDice ==
    /\ dpc = "start"
    /\ dice \in SampleHands
    /\ predictor \in Predictors
    /\ i = 0
    /\ max_value = 0
    /\ best_move = masked_array([p \in Positions |-> p], NoMask)
    /\ predict_calls = <<>>
    /\ die_to_throw = <<>>

\* lines 102-103
DecideStart ==
    /\ dpc = "start"
    /\ dpc' = "loop"
    /\ i' = 0
    /\ max_value' = 0
    /\ best_move' = masked_array([p \in Positions |-> p], NoMask)
    /\ UNCHANGED <<dice, predictor, predict_calls, die_to_throw>>

\* value > max_value
Better(value, best) == value > best

\* one iteration of the loop of lines 106-118; self.predict(inputs) is the
\* predictor, a fixed function of the candidate mask
DecideStep ==
    /\ dpc = "loop"
    /\ i < NumCandidates
    /\ LET inputs_die == masked_array(dice, MaskOf(i))
           value == predictor[i]
       IN  /\ predict_calls' = Append(predict_calls, inputs_die.mask)
           /\ IF Better(value, max_value)
              THEN /\ max_value' = value
                   /\ best_move' = inputs_die
              ELSE UNCHANGED <<max_value, best_move>>
    /\ i' = i + 1
    /\ UNCHANGED <<dpc, dice, predictor, die_to_throw>>

\* [ idx for idx in range(len(best_move)) if best_move.mask[idx] is not ma.masked ]
RECURSIVE Comprehension(_, _)
Comprehension(arr, n) ==
    IF n = 0 THEN <<>>
    ELSE LET idx == n - 1
             rest == Comprehension(arr, n - 1)
         IN  IF IsNot(Bool_(arr.mask[idx]), masked) THEN Append(rest, idx) ELSE rest

DieToThrow(arr) == Comprehension(arr, Cardinality(DOMAIN arr.data))

\* lines 120-121, after the loop
DecideReturn ==
    /\ dpc = "loop"
    /\ i = NumCandidates
    /\ die_to_throw' = DieToThrow(best_move)
    /\ dpc' = "done"
    /\ UNCHANGED <<dice, predictor, i, max_value, best_move, predict_calls>>

-----------------------------------------------------------------------------
(* ScoreLogModel.decide_score_logging *)

Moves == [field : 0..MaxMoveField, score : 0..MaxMoveScore]

\* the non-empty lists of at most MaxMoves moves
MoveLists == UNION {[0..(n - 1) -> Moves] : n \in 1..MaxMoves}

len(list) == Cardinality(DOMAIN list)

IdleScore ==
    /\ spc = "idle"
    /\ possible_moves = [k \in 0..0 |-> [field |-> 0, score |-> 0]]
    /\ sl_predictor = [f \in 0..MaxMoveField |-> 0]
    /\ sl_next = 0
    /\ sl_max_value = 0
    /\ sl_best_move = [field |-> 0, score |-> 0]
    /\ sl_predict_calls = <<>>
    /\ sl_result = [field |-> 0, score |-> 0]

InitScore ==
    /\ spc = "start"
    /\ possible_moves \in MoveLists
    /\ sl_predictor \in [0..MaxMoveField -> (-1)..MaxVal]
    /\ sl_next = 0
    /\ sl_max_value = 0
    /\ sl_best_move = possible_moves[0]
    /\ sl_predict_calls = <<>>
    /\ sl_result = possible_moves[0]

\* best_move = possible_moves[0]
InitialBestDefault(moves) == [field |-> 0, score |-> 0]
InitialBest(moves) == moves[0]

\* value > max_value
SlBetterFlip(value, best) == value >= best
SlBetter(value, best) == value > best

\* lines 172-173
ScoreStart ==
    /\ spc = "start"
    /\ sl_max_value' = 0
    /\ sl_best_move' = InitialBest(possible_moves)
    /\ sl_next' = 0
    /\ spc' = "loop"
    /\ UNCHANGED <<possible_moves, sl_predictor, sl_predict_calls, sl_result>>

\* one iteration of the loop of lines 175-185
ScoreStep ==
    /\ spc = "loop"
    /\ sl_next < len(possible_moves)
    /\ LET move == possible_moves[sl_next]
           value == sl_predictor[move.field]
       IN  /\ sl_predict_calls' = Append(sl_predict_calls, move.field)
           /\ IF SlBetter(value, sl_max_value)
              THEN /\ sl_max_value' = value
                   /\ sl_best_move' = move
              ELSE UNCHANGED <<sl_max_value, sl_best_move>>
    /\ sl_next' = sl_next + 1
    /\ UNCHANGED <<spc, possible_moves, sl_predictor, sl_result>>

\* line 187
ScoreReturn ==
    /\ spc = "loop"
    /\ sl_next = len(possible_moves)
    /\ sl_result' = sl_best_move
    /\ spc' = "done"
    /\ UNCHANGED <<possible_moves, sl_predictor, sl_next, sl_max_value, sl_best_move,
                   sl_predict_calls>>

-----------------------------------------------------------------------------
(* Model.to_categorical, Model.categorize_die, Model.normalize_score_fields *)

\* "for dice in die": iterating a masked array yields ma.masked at the masked
\* positions and the number elsewhere
Iterate(arr) == [p \in DOMAIN arr.data |-> IF arr.mask[p] THEN masked ELSE Int_(arr.data[p])]

\* dice - 1: arithmetic on ma.masked gives ma.masked
MinusOne(x) == IF x.type = "MaskedConstant" THEN masked ELSE Int_(x.v - 1)

\* np.array(y, dtype='int') inside keras' to_categorical: the number, and for
\* ma.masked the data it carries, 0
AsInt(x) == x.v

\* keras' to_categorical(category, num_classes): categorical[0, y] = 1, where
\* numpy wraps an index in -num_classes..-1 around and raises IndexError
\* outside -num_classes..num_classes-1
to_categorical(num_classes, category) ==
    LET y == AsInt(category)
    IN  IF y \in (-num_classes)..(num_classes - 1)
        THEN [raised |-> FALSE,
              out |-> [k \in 1..num_classes |-> IF k - 1 = y % num_classes THEN 1 ELSE 0]]
        ELSE [raised |-> TRUE, out |-> <<>>]

\* lines 42-48: the one-hot blocks of the dice in hand order, each block
\* masked as a whole when its die is ma.masked
RECURSIVE categorize_first(_, _)
categorize_first(items, n) ==
    IF n = 0 THEN [raised |-> FALSE, data |-> <<>>, mask |-> <<>>]
    ELSE LET before == categorize_first(items, n - 1)
             dice_ == items[n - 1]
             one_hot_dice_val == to_categorical(NumFaces, MinusOne(dice_))
             is_masked == ~IsNot(dice_, masked)
         IN  IF before.raised \/ one_hot_dice_val.raised
             THEN [raised |-> TRUE, data |-> <<>>, mask |-> <<>>]
             ELSE [raised |-> FALSE,
                   data |-> before.data \o one_hot_dice_val.out,
                   mask |-> before.mask \o [k \in 1..NumFaces |-> is_masked]]

categorize_die(die) == categorize_first(Iterate(die), Cardinality(DOMAIN die.data))

\* lines 54-56: score_fields.data[idx] / max_scores[idx], kept as the pair
\* <<numerator, denominator>>
normalize_score_fields(score_fields) ==
    [k \in 1..Len(score_fields) |-> <<score_fields[k], max_scores[k]>>]

Unmasked(n) == [k \in 1..n |-> FALSE]

\* lines 91-98 and 161-168: encode, concatenate, reshape(-1, num_inputs), infer
PredictOutcome(head, die, tail, num_inputs) ==
    IF head.raised \/ die.raised
    THEN [raised |-> TRUE, data |-> <<>>, mask |-> <<>>, rows |-> 0]
    ELSE LET data == head.data \o die.data \o tail
             mask == head.mask \o die.mask \o Unmasked(Len(tail))
         IN  IF Len(data) % num_inputs # 0
             THEN [raised |-> TRUE, data |-> <<>>, mask |-> <<>>, rows |-> 0]
             ELSE [raised |-> FALSE, data |-> data, mask |-> mask,
                   rows |-> Len(data) \div num_inputs]

\* DiceThrowModel.predict: dice, throw number, score fields
DicePredict(data) ==
    LET die == categorize_die(data.die)
        throw_one_hot == to_categorical(NumThrows, Int_(data.throw_number))
        score_fields == normalize_score_fields(data.score_fields)
    IN  PredictOutcome([raised |-> throw_one_hot.raised, data |-> <<>>, mask |-> <<>>],
                       die, throw_one_hot.out \o score_fields, DiceNumInputs)

\* ScoreLogModel.predict: field index, dice, score fields
ScorePredict(data) ==
    LET field_index == to_categorical(NumFields, Int_(data.field_index))
        die == categorize_die(data.die)
        score_fields == normalize_score_fields(data.score_fields)
    IN  PredictOutcome([raised |-> field_index.raised, data |-> field_index.out,
                        mask |-> Unmasked(Len(field_index.out))],
                       die, score_fields, ScoreNumInputs)

DieInputs == (1 - BelowRange)..(NumFaces + AboveRange)
ThrowInputs == (0 - BelowRange)..(NumThrows - 1 + AboveRange)
FieldInputs == (0 - BelowRange)..(NumFields - 1 + AboveRange)

\* the score boards handed to predict: the empty board and the full board
Boards == {[k \in 1..NumFields |-> 0], max_scores}

IdleEnc ==
    /\ epc = "idle"
    /\ call = [model |-> "none"]
    /\ fed = <<>>
    /\ fed_mask = <<>>
    /\ inferences = 0

Finish(outcome) ==
    /\ epc' = IF outcome.raised THEN "raised" ELSE "returned"
    /\ fed' = outcome.data
    /\ fed_mask' = outcome.mask
    /\ inferences' = inferences + (IF outcome.raised THEN 0 ELSE 1)

\* the hands handed to predict: a sample hand with any one die replaced
HandsOver(values) == {[h EXCEPT ![p] = v] : h \in SampleHands, p \in Positions, v \in values}

\* a call of DiceThrowModel.predict with a hand of which any dice are masked
PredictDice ==
    /\ epc = "idle"
    /\ \E d \in HandsOver(DieInputs), n \in 0..(NumCandidates - 1),
          t \in ThrowInputs, b \in Boards :
          /\ call' = [model |-> "dice", die |-> masked_array(d, MaskOf(n)),
                       throw_number |-> t, score_fields |-> b]
          /\ Finish(DicePredict(call'))

\* a call of ScoreLogModel.predict with a fully known hand of dice
PredictScore ==
    /\ epc = "idle"
    /\ \E d \in HandsOver(DieInputs), f \in FieldInputs, b \in Boards :
          /\ call' = [model |-> "score", die |-> masked_array(d, NoMask),
                       field_index |-> f, score_fields |-> b]
          /\ Finish(ScorePredict(call'))

-----------------------------------------------------------------------------
(* The history of a game, as TrainingGame.play uses it *)

NoPlay == [dice |-> 0, scoring |-> 0]

\* history.clear_history(); history.initiate_game()
clear_history(h) == [plays |-> <<>>, play |-> NoPlay, total |-> -1]
initiate_game(h) == [h EXCEPT !.play = NoPlay, !.total = -1]

\* history.game.initiate_play(score_fields)
initiate_play(h) == [h EXCEPT !.play = NoPlay]

\* history.game.play.add_dice(die), history.game.play.add_scoring(field_index, score)
add_dice(h) == [h EXCEPT !.play.dice = @ + 1]
add_scoring(h) == [h EXCEPT !.play.scoring = @ + 1]

\* history.game.commit_play(), history.commit_game(total_score)
commit_play(h) == [h EXCEPT !.plays = Append(@, h.play), !.play = NoPlay]
commit_game(h, total) == [h EXCEPT !.total = total]

RECURSIVE Sum(_)
Sum(seq) == IF seq = <<>> THEN 0 ELSE Head(seq) + Sum(Tail(seq))

\* the number of entries of get_dice_throw_data() and of get_score_log_data():
\* one per recorded throw, one per recorded round
dice_throw_entries(h) == Sum([k \in 1..Len(h.plays) |-> h.plays[k].dice])
score_log_entries(h) == Sum([k \in 1..Len(h.plays) |-> h.plays[k].scoring])

-----------------------------------------------------------------------------
(* TrainingGame.play *)

InitGame(games) ==
    /\ gpc = "playN"
    /\ N \in games
    /\ current_play = 0
    /\ round = 0
    /\ throw_number = 0
    /\ history = [plays |-> <<>>, play |-> NoPlay, total |-> -1]
    /\ decisions = 0
    /\ trains = <<>>
    /\ total_score = 0
    /\ game_scores = <<>>
    /\ average_score = <<0, 1>>
    /\ high_score = 0

IdleGame ==
    /\ gpc = "idle"
    /\ N = 0
    /\ current_play = 0
    /\ round = 0
    /\ throw_number = 0
    /\ history = [plays |-> <<>>, play |-> NoPlay, total |-> -1]
    /\ decisions = 0
    /\ trains = <<>>
    /\ total_score = 0
    /\ game_scores = <<>>
    /\ average_score = <<0, 1>>
    /\ high_score = 0

\* lines 24-28, without the call of clear_history
PlayStartKeepHistory ==
    /\ gpc = "play"
    /\ history' = initiate_game(history)
    /\ decisions' = 0
    /\ round' = 1
    /\ gpc' = "for_round"
    /\ UNCHANGED <<N, current_play, throw_number, trains, total_score, game_scores,
                   average_score, high_score>>

\* lines 24-28
PlayStart ==
    /\ gpc = "play"
    /\ history' = initiate_game(clear_history(history))
    /\ decisions' = 0
    /\ round' = 1
    /\ gpc' = "for_round"
    /\ UNCHANGED <<N, current_play, throw_number, trains, total_score, game_scores,
                   average_score, high_score>>

\* lines 29-36: the next round starts and all dice are thrown
RoundStart ==
    /\ gpc = "for_round"
    /\ round <= LastRound
    /\ history' = initiate_play(history)
    /\ throw_number' = 1
    /\ gpc' = "for_throw"
    /\ UNCHANGED <<N, current_play, round, decisions, trains, total_score, game_scores,
                   average_score, high_score>>

\* range(1, 3)
RethrowNumbersWide == 1..3
RethrowNumbers == 1..2

\* lines 38-48: the dice are recorded, the player decides, the dice are thrown
Rethrow ==
    /\ gpc = "for_throw"
    /\ throw_number \in RethrowNumbers
    /\ history' = add_dice(history)
    /\ decisions' = decisions + 1
    /\ throw_number' = throw_number + 1
    /\ UNCHANGED <<gpc, N, current_play, round, trains, total_score, game_scores,
                   average_score, high_score>>

\* line 51: the last dice are recorded
LastDice ==
    /\ gpc = "for_throw"
    /\ throw_number \notin RethrowNumbers
    /\ history' = add_dice(history)
    /\ gpc' = "decide_score"
    /\ UNCHANGED <<N, current_play, round, throw_number, decisions, trains, total_score,
                   game_scores, average_score, high_score>>

\* lines 54-61: the player picks a field, the score is logged and recorded
LogScore ==
    /\ gpc = "decide_score"
    /\ decisions' = decisions + 1
    /\ history' = add_scoring(history)
    /\ gpc' = "commit_play"
    /\ UNCHANGED <<N, current_play, round, throw_number, trains, total_score,
                   game_scores, average_score, high_score>>

\* line 64
CommitPlay ==
    /\ gpc = "commit_play"
    /\ history' = commit_play(history)
    /\ round' = round + 1
    /\ gpc' = "for_round"
    /\ UNCHANGED <<N, current_play, throw_number, decisions, trains, total_score,
                   game_scores, average_score, high_score>>

Scoring(scores) == Cardinality({k \in 1..Len(scores) : scores[k] # 0})

\* the totals count_points can return next
NextTotals == {t \in 0..MaxScore : t = 0 \/ Scoring(game_scores) < MaxScoring}

\* lines 66-70: after the last round the points are counted and committed
GameOver ==
    /\ gpc = "for_round"
    /\ round > LastRound
    /\ \E t \in NextTotals :
          /\ total_score' = t
          /\ history' = commit_game(history, t)
    /\ gpc' = "train_dice"
    /\ UNCHANGED <<N, current_play, round, throw_number, decisions, trains, game_scores,
                   average_score, high_score>>

Trained(model, entries) ==
    [model |-> model, game |-> current_play, rounds |-> Len(history.plays),
     examples |-> entries, output |-> history.total, decisions |-> decisions]

\* line 73
TrainDice ==
    /\ gpc = "train_dice"
    /\ trains' = Append(trains, Trained("dice", dice_throw_entries(history)))
    /\ gpc' = "train_score"
    /\ UNCHANGED <<N, current_play, round, throw_number, history, decisions, total_score,
                   game_scores, average_score, high_score>>

\* lines 74-76
TrainScore ==
    /\ gpc = "train_score"
    /\ trains' = Append(trains, Trained("score", score_log_entries(history)))
    /\ gpc' = "return"
    /\ UNCHANGED <<N, current_play, round, throw_number, history, decisions, total_score,
                   game_scores, average_score, high_score>>

\* play as playN sees it: a call that returns the total score of a game
PlayReturns ==
    /\ gpc = "play"
    /\ \E t \in NextTotals : total_score' = t
    /\ gpc' = "return"
    /\ UNCHANGED <<N, current_play, round, throw_number, history, decisions, trains,
                   game_scores, average_score, high_score>>

-----------------------------------------------------------------------------
(* TrainingGame.playN *)

\* lines 11-13
PlayNStart ==
    /\ gpc = "playN"
    /\ average_score' = <<0, 1>>
    /\ high_score' = 0
    /\ game_scores' = <<>>
    /\ current_play' = 1
    /\ gpc' = "for_play"
    /\ UNCHANGED <<N, round, throw_number, history, decisions, trains, total_score>>

\* lines 14-15: range(1, N + 1)
PlayNNext ==
    /\ gpc = "for_play"
    /\ gpc' = IF current_play <= N THEN "play" ELSE "finished"
    /\ UNCHANGED <<N, current_play, round, throw_number, history, decisions, trains,
                   total_score, game_scores, average_score, high_score>>

\* list[start:], a negative start counting from the end of the list
SliceFrom(list, start) ==
    LET n == Len(list)
        from == IF start < 0 THEN (IF start + n < 0 THEN 0 ELSE start + n)
                ELSE (IF start > n THEN n ELSE start)
    IN  SubSeq(list, from + 1, n)

\* lines 16-21: the score is appended, the average of the last games and the
\* high score are updated; the average is the pair <<sum, divisor>>
PlayNRecord ==
    /\ gpc = "return"
    /\ LET score == total_score
           scores == Append(game_scores, score)
           divisor == IF Len(scores) > Window THEN Window ELSE Len(scores)
       IN  /\ game_scores' = scores
           /\ average_score' = <<Sum(SliceFrom(scores, Len(scores) - Window)), divisor>>
           /\ high_score' = IF high_score < score THEN score ELSE high_score
    /\ current_play' = current_play + 1
    /\ gpc' = "for_play"
    /\ UNCHANGED <<N, round, throw_number, history, decisions, trains, total_score>>

-----------------------------------------------------------------------------
(* Specifications *)

NextDice ==
    \/ DecideStart /\ UNCHANGED <<svars, evars, gvars>>
    \/ DecideStep /\ UNCHANGED <<svars, evars, gvars>>
    \/ DecideReturn /\ UNCHANGED <<svars, evars, gvars>>

StartDice == InitDice /\ IdleScore /\ IdleEnc /\ IdleGame

SpecDice == StartDice /\ [][NextDice]_vars

NextScore ==
    \/ ScoreStart /\ UNCHANGED <<dvars, evars, gvars>>
    \/ ScoreStep /\ UNCHANGED <<dvars, evars, gvars>>
    \/ ScoreReturn /\ UNCHANGED <<dvars, evars, gvars>>

StartScore == InitScore /\ IdleDice /\ IdleEnc /\ IdleGame

SpecScore == StartScore /\ [][NextScore]_vars

NextEnc ==
    \/ PredictDice /\ UNCHANGED <<dvars, svars, gvars>>
    \/ PredictScore /\ UNCHANGED <<dvars, svars, gvars>>

StartEnc == IdleEnc /\ IdleDice /\ IdleScore /\ IdleGame

SpecEnc == StartEnc /\ [][NextEnc]_vars

Others == UNCHANGED <<dvars, svars, evars>>

NextGame ==
    \/ PlayNStart /\ Others
    \/ PlayNNext /\ Others
    \/ PlayStart /\ Others
    \/ RoundStart /\ Others
    \/ Rethrow /\ Others
    \/ LastDice /\ Others
    \/ LogScore /\ Others
    \/ CommitPlay /\ Others
    \/ GameOver /\ Others
    \/ TrainDice /\ Others
    \/ TrainScore /\ Others
    \/ PlayNRecord /\ Others

StartGame == InitGame(1..MaxGames) /\ IdleDice /\ IdleScore /\ IdleEnc

SpecGame == StartGame /\ [][NextGame]_vars

NextPlayN ==
    \/ PlayNStart /\ Others
    \/ PlayNNext /\ Others
    \/ PlayReturns /\ Others
    \/ PlayNRecord /\ Others

StartPlayN == InitGame({LongRun}) /\ IdleDice /\ IdleScore /\ IdleEnc

SpecPlayN == StartPlayN /\ [][NextPlayN]_vars

-----------------------------------------------------------------------------
(* Properties of decide_dice_throw *)

Range(seq) == {seq[k] : k \in 1..Len(seq)}

\* the integer a mask spells, first position most significant
RECURSIVE MaskValue(_, _)
MaskValue(mask, n) ==
    IF n = 0 THEN 0 ELSE 2 * MaskValue(mask, n - 1) + (IF mask[n - 1] THEN 1 ELSE 0)

Candidates == 0..31

\* the earliest candidate among those of maximum predicted value
Winner ==
    CHOOSE m \in Candidates :
        /\ \A o \in Candidates : predictor[o] <= predictor[m]
        /\ \A o \in Candidates : o < m => predictor[o] < predictor[m]

MaskedPositions(m) == {p \in 0..4 : MaskValue([q \in 0..4 |-> q = p], 5) \in
                                      {b \in {1, 2, 4, 8, 16} : (m \div b) % 2 = 1}}

\* C1: when some candidate's prediction is > 0, decide_dice_throw returns
\* exactly the positions masked in the winning candidate (maximum prediction,
\* earliest on ties).
DecideReturnsWinnerMask ==
    (dpc = "done" /\ \E m \in Candidates : predictor[m] > 0)
        => Range(die_to_throw) = MaskedPositions(Winner)

\* C2: when no candidate's prediction is > 0, decide_dice_throw returns the
\* empty set of positions.
DecideDefaultsToNone ==
    (dpc = "done" /\ \A m \in Candidates : predictor[m] <= 0)
        => Range(die_to_throw) = {}

\* C3: a call makes exactly 32 predict calls, one per mask 00000..11111 in
\* increasing order, and returns a subset of {0,1,2,3,4}.
DecideCallsAllMasks ==
    /\ Len(predict_calls) <= 32
    /\ \A n \in 1..Len(predict_calls) : MaskValue(predict_calls[n], 5) = n - 1
    /\ dpc = "done" => /\ Len(predict_calls) = 32
                       /\ Range(die_to_throw) \subseteq 0..4

DecideDoneWitness ==
    /\ dpc = "done"
    /\ Len(predict_calls) = 32
    /\ \E m \in Candidates : predictor[m] > 0
    /\ \E m \in Candidates : predictor[m] < 0

-----------------------------------------------------------------------------
(* Properties of decide_score_logging *)

SlValues == [k \in DOMAIN possible_moves |-> sl_predictor[possible_moves[k].field]]

SlWinner ==
    CHOOSE k \in DOMAIN possible_moves :
        /\ \A o \in DOMAIN possible_moves : SlValues[o] <= SlValues[k]
        /\ \A o \in DOMAIN possible_moves : o < k => SlValues[o] < SlValues[k]

\* C4: decide_score_logging returns the candidate of maximum predicted value
\* when that maximum is > 0 (the earliest one on ties), and the first
\* candidate when no prediction is > 0.
ScoreLoggingReturnsBest ==
    spc = "done" =>
        IF SlValues[SlWinner] > 0
        THEN sl_result = possible_moves[SlWinner]
        ELSE sl_result = possible_moves[0]

ScoreLoggingTieWitness ==
    /\ spc = "done"
    /\ len(possible_moves) = 3
    /\ SlValues[0] < SlValues[1]
    /\ SlValues[1] = SlValues[2]
    /\ SlValues[1] > 0
    /\ possible_moves[1] # possible_moves[2]
    /\ sl_result = possible_moves[1]

\* C5: the returned pair is one of the supplied moves, unchanged, and there is
\* exactly one predict call per supplied candidate.
ScoreLoggingReturnsSupplied ==
    spc = "done" =>
        /\ \E k \in DOMAIN possible_moves : sl_result = possible_moves[k]
        /\ Len(sl_predict_calls) = len(possible_moves)
        /\ \A k \in DOMAIN possible_moves : sl_predict_calls[k + 1] = possible_moves[k].field

ScoreLoggingFallbackWitness ==
    /\ spc = "done"
    /\ len(possible_moves) >= 2
    /\ \A k \in DOMAIN possible_moves : SlValues[k] <= 0
    /\ sl_result = possible_moves[0]
    /\ sl_result # [field |-> 0, score |-> 0]
    /\ Len(sl_predict_calls) = len(possible_moves)

-----------------------------------------------------------------------------
(* Properties of the encoders *)

\* the die at position p of the hand of the call: "masked" or its value
KnownAt(p) == ~call.die.mask[p]

OutOfRange ==
    \/ \E p \in DOMAIN call.die.data : KnownAt(p) /\ call.die.data[p] \notin 1..6
    \/ call.model = "dice" /\ call.throw_number \notin 0..2
    \/ call.model = "score" /\ call.field_index \notin 0..14
    \/ Cardinality(DOMAIN call.die.data) # 5

\* C6: a call of predict with a die value outside 1..6, a field index outside
\* 0..14, a throw index outside 0..2 or a hand of a length other than 5 fails
\* before any inference, and no feature vector is produced.
PredictRejectsOutOfRange ==
    (epc # "idle" /\ OutOfRange) => (epc = "raised" /\ inferences = 0 /\ fed = <<>>)

\* the 6 values fed to the predictor for the die at position p
FedBlock(p) == [k \in 0..5 |-> fed[6 * p + k + 1]]

\* C7: for a hand of 5 dice, 30 values are fed to the predictor, 6 per
\* position in hand order: one-hot with the 1 at index v-1 for a known die v
\* in 1..6, all 0 for a masked die.
MaskedDieFedAsZeros ==
    (/\ epc = "returned"
     /\ call.model = "dice"
     /\ call.throw_number \in 0..2
     /\ \A p \in 0..4 : KnownAt(p) => call.die.data[p] \in 1..6)
        => /\ Len(fed) = 30 + 3 + 15
           /\ \A p \in 0..4 :
                 IF KnownAt(p)
                 THEN FedBlock(p) = [k \in 0..5 |-> IF k = call.die.data[p] - 1 THEN 1 ELSE 0]
                 ELSE FedBlock(p) = [k \in 0..5 |-> 0]

-----------------------------------------------------------------------------
(* Properties of play and playN *)

\* C8: when commit_game is reached, 45 dice snapshots (3 in each of the 15
\* rounds, before the round's commit_play) and 15 scoring records (1 per
\* round) are recorded, so the batches have 45 and 15 examples.
GameRecords45And15 ==
    /\ gpc = "commit_play" => history.play = [dice |-> 3, scoring |-> 1]
    /\ \A k \in 1..Len(history.plays) : history.plays[k] = [dice |-> 3, scoring |-> 1]
    /\ gpc \in {"train_dice", "train_score", "return"} =>
          /\ history.total = total_score
          /\ Len(history.plays) = 15
          /\ dice_throw_entries(history) = 45
          /\ score_log_entries(history) = 15
    /\ \A n \in 1..Len(trains) :
          trains[n].examples = IF trains[n].model = "dice" THEN 45 ELSE 15

GameRecordedWitness ==
    /\ gpc = "train_score"
    /\ current_play = 2
    /\ Len(trains) = 3
    /\ trains[3].examples = 45
    /\ Len(history.plays) = 15

Played == IF gpc \in {"for_play", "finished"} THEN current_play - 1 ELSE current_play

\* C9: each model's train is called once per game, after the game's 15 rounds
\* and commit_game, the dice model before the score model; no decision of the
\* game follows its train calls, and a train call sees the records of the
\* game just finished only.
TrainsAfterEachGame ==
    /\ \A n \in 1..Len(trains) :
          /\ trains[n].game = (n + 1) \div 2
          /\ trains[n].model = IF n % 2 = 1 THEN "dice" ELSE "score"
          /\ trains[n].rounds = 15
          /\ trains[n].output >= 0
          /\ trains[n].decisions = 45
          /\ trains[n].examples = IF n % 2 = 1 THEN 45 ELSE 15
    /\ Len(trains) = CASE gpc \in {"playN", "idle"} -> 0
                        [] gpc = "train_score" -> 2 * Played - 1
                        [] gpc \in {"return", "for_play", "finished"} -> 2 * Played
                        [] OTHER -> 2 * (Played - 1)
    /\ gpc \in {"train_score", "return"} => decisions = 45

TwoGamesTrainedWitness ==
    /\ gpc = "finished"
    /\ N = 2
    /\ Len(trains) = 4
    /\ trains[3].game = 2
    /\ trains[4].rounds = 15

RECURSIVE SumLast(_, _)
SumLast(scores, m) ==
    IF m = 0 THEN 0 ELSE scores[Len(scores) - m + 1] + SumLast(scores, m - 1)

\* C10: after the k-th game, average_score is the sum of the last min(k,100)
\* scores divided by min(k,100), and high_score is the maximum of 0 and the
\* scores so far.
AverageOfLastGames ==
    (gpc = "for_play" /\ Len(game_scores) >= 1) =>
        LET k == Len(game_scores)
            m == IF k < 100 THEN k ELSE 100
        IN  /\ average_score[1] * m = SumLast(game_scores, m) * average_score[2]
            /\ \A j \in 1..k : game_scores[j] <= high_score
            /\ high_score \in {0} \cup {game_scores[j] : j \in 1..k}

====
